---- MODULE Spec2Model ----
(***************************************************************************)
(* Model of ev_analysis_app.py: a Streamlit page that loads a CSV of       *)
(* electric-vehicle records, filters it by the sidebar widgets, optionally *)
(* trims price outliers with the IQR rule, draws charts and offers the     *)
(* filtered table as CSV and PDF downloads.                                *)
(*                                                                         *)
(* Streamlit re-executes main() from top to bottom on the first page load  *)
(* and after every widget interaction; runs never overlap.  Every action   *)
(* of the model is therefore one complete execution of main(): the first   *)
(* load, or a widget change followed by the rerun it triggers.  The state  *)
(* between actions is the widget state of the session plus what the last   *)
(* run computed and put on the page.                                       *)
(*                                                                         *)
(* Numbers: prices and ranges are drawn from small integers, for which the *)
(* float arithmetic of the program (quantile interpolation at multiples of *)
(* 1/4, the factor 1.5, the division of line 64) is exact.  Quantiles are  *)
(* carried scaled by 4 and the IQR fences scaled by 8, quotients as        *)
(* numerator/denominator pairs.                                            *)
(***************************************************************************)
EXTENDS Integers, Sequences, FiniteSets, TLC

\* ------------------------------------------------------------------ bounds

\* Longest input file (rows) of the general specification.
MaxRows == 3
\* Longest input file (rows) of the outlier specification.
MaxOutlierRows == 5

\* ------------------------------------------------------------ input domain

Columns == {"Model Year", "Make", "Electric Range", "Expected Price ($1k)"}

\* A CSV row: the four cells, and the set of columns whose cell is not empty.
Row(y, m, r, p, pres) ==
    [year |-> y, make |-> m, range |-> r, price |-> p, present |-> pres]

\* Rows the input files of the general specification are made of: every
\* field varies, one row has range 0, one row misses its range cell.
RowPool ==
    { Row(2020, "A", 100, 40, Columns),
      Row(2021, "B", 0, 100, Columns),
      Row(2020, "B", 0, 40, Columns \ {"Electric Range"}) }

\* Rows of the outlier specification: three prices, two makes, two years.
OutlierPool ==
    { Row(2020, "A", 100, 35, Columns),
      Row(2020, "A", 100, 40, Columns),
      Row(2020, "A", 100, 90, Columns),
      Row(2021, "B", 100, 90, Columns) }

SeqsUpTo(S, n) == UNION { [1..k -> S] : k \in 0..n }

Files == SeqsUpTo(RowPool, MaxRows)
OutlierFiles == SeqsUpTo(OutlierPool, MaxOutlierRows)

\* ------------------------------------------------------------------- state

VARIABLES
    uploaded_file,   \* rows of the CSV read by line 21 (the upload) or 24 (the bundled file)
    pdf_backend,     \* "ok", "unconfigured" (no wkhtmltopdf), "missing" (no pdfkit)
    started,         \* the page has been loaded once
    brand,           \* widget values of the session
    model_year,
    price_range,
    range_miles,
    show_outliers,
    advanced_charts,
    df,              \* line 27: the cleaned dataset of the last run
    mean_range,      \* line 33: the number shown as "Average Range (miles)"
    predicate_df,    \* filtered_df as lines 47-51 left it (history of the local)
    filtered_df,     \* filtered_df at the end of the run
    price_per_mile,  \* line 64: the column 'Price per Mile' of filtered_df
    page,            \* the elements the last run put on the page
    failure          \* the statement of the last run that raised, or "none"

widgets == <<brand, model_year, price_range, range_miles, show_outliers, advanced_charts>>
locals == <<df, mean_range, predicate_df, filtered_df, price_per_mile, page, failure>>
vars == <<uploaded_file, pdf_backend, started, widgets, locals>>

\* ----------------------------------------------------------------- helpers

Min(a, b) == IF a <= b THEN a ELSE b
Max(a, b) == IF a >= b THEN a ELSE b
SetMin(S) == CHOOSE x \in S : \A y \in S : x <= y
SetMax(S) == CHOOSE x \in S : \A y \in S : x >= y
Column(t, f) == [i \in 1..Len(t) |-> t[i][f]]
Values(t, f) == { t[i][f] : i \in 1..Len(t) }

RECURSIVE Sum(_)
Sum(s) == IF s = <<>> THEN 0 ELSE Head(s) + Sum(Tail(s))

\* ------------------------------------------------------- lines 9, 19-27: load

Backends == {"ok", "unconfigured", "missing"}

\* pd.read_csv: the rows in file order, labelled 0, 1, 2, ... by the index.
ReadCsv(file) ==
    [i \in 1..Len(file) |->
        [idx |-> i - 1, year |-> file[i].year, make |-> file[i].make,
         range |-> file[i].range, price |-> file[i].price,
         present |-> file[i].present]]

\* df[[four columns]].dropna(): rows with an empty cell in one of the four
\* columns go, the others keep their order and their index label.
DropNa(t) ==
    LET kept == SelectSeq(t, LAMBDA r : Columns \subseteq r.present)
    IN  [i \in 1..Len(kept) |->
            [idx |-> kept[i].idx, year |-> kept[i].year, make |-> kept[i].make,
             range |-> kept[i].range, price |-> kept[i].price]]

LoadDataset(file) == DropNa(ReadCsv(file))

\* ---------------------------------------------------- lines 29-35: metrics

\* int(df['Electric Range'].mean()): int() truncates; ranges are >= 0, so the
\* truncation is the floor.  Only evaluated for a non-empty df: the mean of an
\* empty column is NaN and int(NaN) raises (see FirstFailure).
MeanRangeMetric(d) == Sum(Column(d, "range")) \div Len(d)

\* ---------------------------------------------------- lines 38-44: sidebar

BrandOptions(d) == {"All"} \cup Values(d, "make")
YearMin(d) == SetMin(Values(d, "year"))
YearMax(d) == SetMax(Values(d, "year"))
PriceMin(d) == SetMin(Values(d, "price"))
PriceMax(d) == SetMax(Values(d, "price"))
RangeMin(d) == SetMin(Values(d, "range"))
RangeMax(d) == SetMax(Values(d, "range"))

PriceDefault == <<0, 100>>
RangeDefault == <<0, 300>>

\* st.slider keeps its default inside the track by widening the track to it:
\* the handles can sit anywhere in [min(min_value, default), max(max_value, default)].
SliderLow(min_value, default) == Min(min_value, default[1])
SliderHigh(max_value, default) == Max(max_value, default[2])

\* Handle positions tried: the values of the data and the ends of the default.
PricePoints(d) == {PriceDefault[1], PriceDefault[2]} \cup Values(d, "price")
RangePoints(d) == {RangeDefault[1], RangeDefault[2]} \cup Values(d, "range")

\* What the widgets return on the first run: their value= arguments.
DefaultWidgets(d) ==
    [brand |-> "All", model_year |-> YearMax(d), price_range |-> PriceDefault,
     range_miles |-> RangeDefault, show_outliers |-> TRUE, advanced_charts |-> FALSE]

\* ----------------------------------------------------- lines 47-51: filter

\* Mutant: the right end exclusive.
BetweenRightOpen(x, left, right) == left <= x /\ x < right

\* Series.between(left, right): inclusive at both ends.
Between(x, left, right) == left <= x /\ x <= right

\* Mutant: the surviving rows come out in reverse order.
PredicateFilterReversed(d, w) ==
    LET kept == SelectSeq(d, LAMBDA r :
                    /\ r.year <= w.model_year
                    /\ Between(r.price, w.price_range[1], w.price_range[2])
                    /\ Between(r.range, w.range_miles[1], w.range_miles[2])
                    /\ (w.brand = "All" \/ r.make = w.brand))
    IN  [i \in 1..Len(kept) |-> kept[Len(kept) + 1 - i]]

\* Mutant: the year ceiling is exclusive.
PredicateFilterYearBelow(d, w) ==
    LET byBounds == SelectSeq(d, LAMBDA r :
                        /\ r.year < w.model_year
                        /\ Between(r.price, w.price_range[1], w.price_range[2])
                        /\ Between(r.range, w.range_miles[1], w.range_miles[2]))
    IN  IF w.brand # "All"
        THEN SelectSeq(byBounds, LAMBDA r : r.make = w.brand)
        ELSE byBounds

PredicateFilter(d, w) ==
    LET byBounds == SelectSeq(d, LAMBDA r :
                        /\ r.year <= w.model_year
                        /\ Between(r.price, w.price_range[1], w.price_range[2])
                        /\ Between(r.range, w.range_miles[1], w.range_miles[2]))
    IN  IF w.brand # "All"
        THEN SelectSeq(byBounds, LAMBDA r : r.make = w.brand)
        ELSE byBounds

\* --------------------------------------------------- lines 54-58: outliers

\* The k-th smallest (k = 0, 1, ...) of a non-empty sequence of numbers.
Kth(s, k) ==
    CHOOSE v \in { s[i] : i \in 1..Len(s) } :
        /\ Cardinality({ i \in 1..Len(s) : s[i] < v }) <= k
        /\ k < Cardinality({ i \in 1..Len(s) : s[i] <= v })

\* Series.quantile(quarters/4), linear interpolation, times 4: with the sorted
\* values x[0..n-1] and h = (n-1)*quarters/4, x[floor h] + frac(h)*(x[floor h + 1]
\* - x[floor h]).  NaN for an empty series.
Quantile4(s, quarters) ==
    IF Len(s) = 0 THEN [nan |-> TRUE, x4 |-> 0]
    ELSE LET h4 == (Len(s) - 1) * quarters
             lo == h4 \div 4
             fr == h4 % 4
             a  == Kth(s, lo)
             b  == IF fr = 0 THEN a ELSE Kth(s, lo + 1)
         IN  [nan |-> FALSE, x4 |-> 4 * a + fr * (b - a)]

\* Mutant: a quantile that rejects an empty input.
QuantileRaisesOnEmpty(s) == Len(s) = 0

\* Series.quantile returns NaN for an empty series; it does not raise.
QuantileRaises(s) == FALSE

\* Mutant: only the upper fence is applied.
IqrExcludeUpperOnly(t) ==
    LET prices == Column(t, "price")
        Q1     == Quantile4(prices, 1)
        Q3     == Quantile4(prices, 3)
        IQR4   == Q3.x4 - Q1.x4
        nan    == Q1.nan \/ Q3.nan
        high8  == 2 * Q3.x4 + 3 * IQR4
    IN  SelectSeq(t, LAMBDA r : ~ (~nan /\ 8 * r.price > high8))

\* Lines 55-58 on the table t: the fences are computed from t's own prices;
\* a comparison with NaN is False, so NaN fences drop nothing.
IqrExclude(t) ==
    LET prices == Column(t, "price")
        Q1     == Quantile4(prices, 1)
        Q3     == Quantile4(prices, 3)
        IQR4   == Q3.x4 - Q1.x4
        nan    == Q1.nan \/ Q3.nan
        low8   == 2 * Q1.x4 - 3 * IQR4
        high8  == 2 * Q3.x4 + 3 * IQR4
    IN  SelectSeq(t, LAMBDA r :
            ~ ( \/ (~nan /\ 8 * r.price < low8)
                \/ (~nan /\ 8 * r.price > high8) ))

\* Mutant: the checkbox read the other way round.
OutlierStepWhenChecked(t, w) == IF w.show_outliers THEN IqrExclude(t) ELSE t

OutlierStep(t, w) == IF ~w.show_outliers THEN IqrExclude(t) ELSE t

\* --------------------------------------------------- line 64: price per mile

\* Mutant: the zero ranges are left in place.
ReplaceNothing(x, old, new) == x

\* Series.replace(old, new)
Replace(x, old, new) == IF x = old THEN new ELSE x

\* Float division as a quotient num/den; den = 0 stands for the inf (or NaN)
\* that pandas produces when it divides by zero.
Divide(a, b) == [num |-> a, den |-> b]

PricePerMile(r) == Divide(r.price * 1000, Replace(r.range, 0, 1))

\* ------------------------------------------------------------- the script

\* The statements of the script that can raise or that put something on the
\* page, in program order.
Script ==
    << "import", "title", "intro", "file_uploader", "read_csv",
       "header_metrics", "metric_range", "metric_price", "sidebar", "filter",
       "outliers", "header_visualizations", "price_per_mile", "strip_plot",
       "heatmap", "scatter", "insights", "header_export", "csv_button",
       "pdf_render", "pdf_button", "branding" >>

\* Those that put an element on the page.
Elements ==
    { "title", "intro", "file_uploader", "header_metrics", "metric_range",
      "metric_price", "sidebar", "header_visualizations", "strip_plot",
      "heatmap", "scatter", "insights", "header_export", "csv_button",
      "pdf_button", "branding" }

\* Position of a statement in the script.
Position == [s \in { Script[i] : i \in 1..Len(Script) } |->
                CHOOSE i \in 1..Len(Script) : Script[i] = s]
Pos(stmt) == Position[stmt]

\* sns.heatmap on the pivot of an empty table: whether it draws an empty
\* chart or raises depends on the installed version; both are possible.
RenderOutcomes(view) ==
    IF view = <<>> THEN {"none", "heatmap"} ELSE {"none"}

\* The first statement that raises.  Nothing in main() catches anything, so
\* the run ends there.
FirstFailure(backend, d, pre, w, render) ==
    IF backend = "missing" THEN "import"               \* line 9
    ELSE IF d = <<>> THEN "metric_range"               \* line 33: int(NaN)
    ELSE IF ~w.show_outliers /\ QuantileRaises(Column(pre, "price"))
         THEN "outliers"                               \* lines 55-56
    ELSE IF render # "none" THEN render                \* line 72
    ELSE IF backend = "unconfigured" THEN "pdf_render" \* line 99
    ELSE "none"

\* The statement was executed and did not raise.
Executed(stmt, fail) == fail = "none" \/ Pos(stmt) < Pos(fail)

\* The elements a run that ended at fail put on the page; the scatter plot of
\* lines 77-80 only when the Advanced Charts box is ticked.
PageOf(fail, w) ==
    { s \in Elements : Executed(s, fail) /\ (s = "scatter" => w.advanced_charts) }

\* ----------------------------------------------------------------- actions

CurrentWidgets ==
    [brand |-> brand, model_year |-> model_year, price_range |-> price_range,
     range_miles |-> range_miles, show_outliers |-> show_outliers,
     advanced_charts |-> advanced_charts]

\* One execution of main() with the widgets returning w: what the run leaves
\* in its locals and on the page.  A local the run did not reach stays empty.
Main(w) ==
    \E d \in {LoadDataset(uploaded_file)} :
    \E pre \in {PredicateFilter(d, w)} :
    \E post \in {OutlierStep(pre, w)} :
    \E render \in RenderOutcomes(post) :
    \E fail \in {FirstFailure(pdf_backend, d, pre, w, render)} :
        /\ df' = IF Executed("read_csv", fail) THEN d ELSE <<>>
        /\ mean_range' = IF Executed("metric_range", fail)
                         THEN MeanRangeMetric(d) ELSE 0
        /\ predicate_df' = IF Executed("filter", fail) THEN pre ELSE <<>>
        /\ filtered_df' = IF Executed("outliers", fail) THEN post
                          ELSE IF Executed("filter", fail) THEN pre ELSE <<>>
        /\ price_per_mile' = IF Executed("price_per_mile", fail)
                             THEN [i \in 1..Len(post) |-> PricePerMile(post[i])]
                             ELSE <<>>
        /\ page' = PageOf(fail, w)
        /\ failure' = fail
        /\ IF Executed("sidebar", fail)
           THEN /\ brand' = w.brand
                /\ model_year' = w.model_year
                /\ price_range' = w.price_range
                /\ range_miles' = w.range_miles
                /\ show_outliers' = w.show_outliers
                /\ advanced_charts' = w.advanced_charts
           ELSE UNCHANGED widgets
        /\ UNCHANGED <<uploaded_file, pdf_backend>>

\* The widgets exist (the last run reached the sidebar) and can be operated.
Interactive == started /\ "sidebar" \in page

\* First load of the page: every widget returns its default.
Start ==
    /\ ~started
    /\ started' = TRUE
    /\ \E d \in {LoadDataset(uploaded_file)} :
          Main(IF d = <<>> THEN CurrentWidgets ELSE DefaultWidgets(d))

SelectBrand ==
    /\ Interactive
    /\ \E b \in BrandOptions(df) \ {brand} :
          Main([CurrentWidgets EXCEPT !.brand = b])
    /\ UNCHANGED started

SlideModelYear ==
    /\ Interactive
    /\ \E y \in (YearMin(df)..YearMax(df)) \ {model_year} :
          Main([CurrentWidgets EXCEPT !.model_year = y])
    /\ UNCHANGED started

SlidePriceRange ==
    /\ Interactive
    /\ \E lo, hi \in PricePoints(df) :
          /\ SliderLow(PriceMin(df), PriceDefault) <= lo
          /\ lo <= hi
          /\ hi <= SliderHigh(PriceMax(df), PriceDefault)
          /\ <<lo, hi>> # price_range
          /\ Main([CurrentWidgets EXCEPT !.price_range = <<lo, hi>>])
    /\ UNCHANGED started

SlideRangeMiles ==
    /\ Interactive
    /\ \E lo, hi \in RangePoints(df) :
          /\ SliderLow(RangeMin(df), RangeDefault) <= lo
          /\ lo <= hi
          /\ hi <= SliderHigh(RangeMax(df), RangeDefault)
          /\ <<lo, hi>> # range_miles
          /\ Main([CurrentWidgets EXCEPT !.range_miles = <<lo, hi>>])
    /\ UNCHANGED started

ToggleShowOutliers ==
    /\ Interactive
    /\ Main([CurrentWidgets EXCEPT !.show_outliers = ~show_outliers])
    /\ UNCHANGED started

ToggleAdvancedCharts ==
    /\ Interactive
    /\ Main([CurrentWidgets EXCEPT !.advanced_charts = ~advanced_charts])
    /\ UNCHANGED started

\* ----------------------------------------------------------- specifications

\* Before the first run: no widget exists yet and nothing has been computed.
Blank ==
    /\ started = FALSE
    /\ brand = "All"
    /\ model_year = 0
    /\ price_range = PriceDefault
    /\ range_miles = RangeDefault
    /\ show_outliers = TRUE
    /\ advanced_charts = FALSE
    /\ df = <<>>
    /\ mean_range = 0
    /\ predicate_df = <<>>
    /\ filtered_df = <<>>
    /\ price_per_mile = <<>>
    /\ page = {}
    /\ failure = "none"

Init ==
    /\ uploaded_file \in Files
    /\ pdf_backend \in Backends
    /\ Blank

\* Sessions with the outliers shown throughout.
Next ==
    \/ Start
    \/ SelectBrand
    \/ SlideModelYear
    \/ SlidePriceRange
    \/ SlideRangeMiles
    \/ ToggleAdvancedCharts

Spec == Init /\ [][Next]_vars

\* Longer files whose rows differ in price, make and year, the PDF engine
\* present, the user operating the brand selector, the year slider and the
\* Show Outliers box.
InitOutliers ==
    /\ uploaded_file \in OutlierFiles
    /\ pdf_backend = "ok"
    /\ Blank

NextOutliers ==
    \/ Start
    \/ SelectBrand
    \/ SlideModelYear
    \/ ToggleShowOutliers

SpecOutliers == InitOutliers /\ [][NextOutliers]_vars


\* ================================================================== claims

\* The last run got as far as executing stmt without raising.
Ran(stmt) == started /\ Executed(stmt, failure)

Abs(x) == IF x < 0 THEN 0 - x ELSE x

\* s is t with some elements removed: the index labels of s increase strictly
\* and every row of s is a row of t.
IsSubsequence(s, t) ==
    /\ \A i, j \in 1..Len(s) : i < j => s[i].idx < s[j].idx
    /\ \A i \in 1..Len(s) : \E k \in 1..Len(t) : t[k] = s[i]

Contains(t, r) == \E k \in 1..Len(t) : t[k] = r

\* The record satisfies the four predicates of the current criteria.
Matches(r) ==
    /\ r.year <= model_year
    /\ price_range[1] <= r.price /\ r.price <= price_range[2]
    /\ range_miles[1] <= r.range /\ r.range <= range_miles[2]
    /\ (brand = "All" \/ r.make = brand)

\* The fences of the IQR rule on the prices of table t, times 8.
LowFence8(t) ==
    5 * Quantile4(Column(t, "price"), 1).x4 - 3 * Quantile4(Column(t, "price"), 3).x4
HighFence8(t) ==
    5 * Quantile4(Column(t, "price"), 3).x4 - 3 * Quantile4(Column(t, "price"), 1).x4
Outlier(r, t) == 8 * r.price < LowFence8(t) \/ 8 * r.price > HighFence8(t)

\* C1: with the outliers shown, the filtered view holds exactly the records of
\* the cleaned dataset that satisfy the year, price, range and brand
\* predicates (both interval ends inclusive), in dataset order.
C1_FilterKeepsExactlyMatching ==
    (Ran("filter") /\ show_outliers) =>
        /\ IsSubsequence(filtered_df, df)
        /\ \A i \in 1..Len(df) : Contains(filtered_df, df[i]) <=> Matches(df[i])

\* C1 witness: a run that kept a record sitting exactly on the upper end of the
\* price interval and on the year ceiling, and dropped another record.
C1_Witness ==
    /\ Ran("filter") /\ show_outliers
    /\ price_range[2] < 100
    /\ \E i \in 1..Len(filtered_df) :
          /\ filtered_df[i].price = price_range[2]
          /\ filtered_df[i].year = model_year
    /\ Len(filtered_df) < Len(df)

\* C2 as stated: running the outlier step on the result of the outlier step
\* gives that result back.
C2_OutlierExclusionIdempotent ==
    (Ran("outliers") /\ ~show_outliers) => IqrExclude(filtered_df) = filtered_df

\* C2 amended: the result of the outlier step holds no record outside the
\* fences computed on the step's input, so filtering it again with those
\* fences changes nothing; the step run again on its result (fences recomputed)
\* returns a subsequence of the result.
C2_NoOutlierOfInputFencesLeft ==
    (Ran("outliers") /\ ~show_outliers) =>
        /\ \A i \in 1..Len(filtered_df) : ~Outlier(filtered_df[i], predicate_df)
        /\ IsSubsequence(IqrExclude(filtered_df), filtered_df)

\* C2 witness: the outlier step dropped a record, and run again on its result
\* it would drop another one.
C2_Witness ==
    /\ Ran("outliers") /\ ~show_outliers
    /\ Len(filtered_df) < Len(predicate_df)
    /\ Len(IqrExclude(filtered_df)) < Len(filtered_df)

\* The elements of a complete page, the PDF button aside.
ExpectedBesidePdf ==
    { s \in Elements : s # "pdf_button" /\ (s = "scatter" => advanced_charts) }

\* C3 as stated: when the PDF export fails, the metrics, the charts, the CSV
\* button and every other panel are still on the page.
C3_PdfFailureConfined ==
    (started /\ failure = "pdf_render") => ExpectedBesidePdf \subseteq page

\* C4: with Show Outliers unchecked and nothing passing the predicates, the
\* outlier step does not raise, leaves the empty table and the run goes on to
\* the visualizations.
C4_EmptySubsetSkipsOutliers ==
    (Ran("filter") /\ ~show_outliers /\ predicate_df = <<>>) =>
        /\ failure # "outliers"
        /\ filtered_df = <<>>
        /\ "header_visualizations" \in page

\* C4 witness: a non-empty dataset, an empty predicate subset, the box unchecked.
C4_Witness ==
    /\ Ran("outliers") /\ ~show_outliers
    /\ df # <<>>
    /\ predicate_df = <<>>

\* C5 as stated: the displayed mean range is the mean of electricRange over
\* the cleaned dataset rounded to the nearest integer (no integer is nearer).
C5_MeanRangeNearestInteger ==
    Ran("metric_range") =>
        2 * Abs(mean_range * Len(df) - Sum(Column(df, "range"))) <= Len(df)

\* C6: every record of the view has pricePerMile = expectedPrice*1000/range,
\* or expectedPrice*1000 when the range is 0; no quotient has denominator 0.
C6_PricePerMile ==
    Ran("price_per_mile") =>
        /\ Len(price_per_mile) = Len(filtered_df)
        /\ \A i \in 1..Len(filtered_df) :
              LET r == filtered_df[i]
                  q == price_per_mile[i]
              IN  /\ q.den # 0
                  /\ r.range # 0 => q.num * r.range = r.price * 1000 * q.den
                  /\ r.range = 0 => q.num = r.price * 1000 * q.den

\* C6 witness: a view with a record of range 0 and a record of range > 0.
C6_Witness ==
    /\ Ran("price_per_mile")
    /\ \E i, j \in 1..Len(filtered_df) :
          filtered_df[i].range = 0 /\ filtered_df[j].range > 0

\* The criteria are the widest the dataset allows.
WidestCriteria ==
    /\ model_year = YearMax(df)
    /\ price_range = <<PriceMin(df), PriceMax(df)>>
    /\ range_miles = <<RangeMin(df), RangeMax(df)>>
    /\ brand = "All"
    /\ show_outliers

\* C7: with the widest criteria the view has as many rows as the dataset.
C7_WidestCriteriaKeepAll ==
    (Ran("filter") /\ df # <<>> /\ WidestCriteria) => Len(filtered_df) = Len(df)

\* C7 witness: the widest criteria, set by the user, on a dataset whose
\* records differ in year, price and range.
C7_Witness ==
    /\ Ran("filter") /\ df # <<>> /\ WidestCriteria
    /\ price_range # PriceDefault /\ range_miles # RangeDefault
    /\ PriceMin(df) < PriceMax(df)
    /\ RangeMin(df) < RangeMax(df)
    /\ YearMin(df) < YearMax(df)

\* C8 as stated: the price and range intervals of the criteria lie within the
\* dataset's minimum and maximum, on the first run too.
C8_IntervalsWithinDataset ==
    Ran("sidebar") =>
        /\ PriceMin(df) <= price_range[1] /\ price_range[2] <= PriceMax(df)
        /\ RangeMin(df) <= range_miles[1] /\ range_miles[2] <= RangeMax(df)

\* C9: the outlier step runs exactly when Show Outliers is unchecked; it then
\* drops a record of the predicate-filtered subset if and only if its price is
\* below Q1 - 1.5*IQR or above Q3 + 1.5*IQR, the quartiles taken over that
\* subset; with the box checked the subset comes back unchanged.
C9_OutlierStep ==
    Ran("outliers") =>
        /\ show_outliers => filtered_df = predicate_df
        /\ ~show_outliers =>
              /\ IsSubsequence(filtered_df, predicate_df)
              /\ \A i \in 1..Len(predicate_df) :
                    Contains(filtered_df, predicate_df[i])
                        <=> ~Outlier(predicate_df[i], predicate_df)

\* C9 witness: the brand predicate removed records, and the outlier step then
\* dropped a record that is no outlier of the full dataset.
C9_Witness ==
    /\ Ran("outliers") /\ ~show_outliers
    /\ Len(predicate_df) < Len(df)
    /\ \E i \in 1..Len(predicate_df) :
          /\ ~Contains(filtered_df, predicate_df[i])
          /\ ~Outlier(predicate_df[i], df)

\* C10: with or without outlier exclusion the view is a subsequence of the
\* cleaned dataset: surviving records keep their relative order, none twice.
C10_StableFilter ==
    Ran("outliers") => IsSubsequence(filtered_df, df)

\* C10 witness: outlier exclusion on, at least two records survive, the
\* predicates removed a record and the outlier step removed another.
C10_Witness ==
    /\ Ran("outliers") /\ ~show_outliers
    /\ Len(filtered_df) >= 2
    /\ Len(predicate_df) < Len(df)
    /\ Len(filtered_df) < Len(predicate_df)

====
